---- MODULE Spec2Model ----
(***************************************************************************)
(* Model of src/server.js (first copy of the server, lines 1-785): the     *)
(* chatbot HTTP API, the WhatsApp webhook verification and the inbound      *)
(* message pipeline.                                                        *)
(*                                                                          *)
(* Spec         the HTTP API and GET /webhook; every handler is one action  *)
(*              (no two API handlers share mutable state between awaits     *)
(*              except through the store, which each touches once).         *)
(* SpecWebhook  POST /webhook: one action per await of the pipeline, so     *)
(*              that deliveries interleave as they do on the event loop.    *)
(* SpecSequential  the same pipeline with deliveries that do not overlap.   *)
(* SpecWidget   src/public/widget.js: the chat panel of one page, one       *)
(*              action per user event and per settled promise.              *)
(***************************************************************************)
EXTENDS Integers, Sequences, FiniteSets, TLC

\* ------------------------------------------------------------------ bounds
\* Bot records created in one run of Spec.
MaxBots == 1
\* POST /webhook deliveries in one run of SpecWebhook.
MaxDeliveries == 2
\* External calls (store, completion, messaging platform) that fail in one run.
MaxFaults == 1

\* ------------------------------------------------------- values and text
\* JavaScript's undefined, for request fields that are strings when present.
Undefined == "<undefined>"

\* !v for a field that is a string when present (server.js:135, 141, 252, 310).
Falsy(v) == v \in {Undefined, ""}

\* String.prototype.includes on texts modelled as sequences of characters.
includes(s, sub) ==
  \E i \in 1..(Len(s) + 1) :
    /\ i + Len(sub) - 1 <= Len(s)
    /\ SubSeq(s, i, i + Len(sub) - 1) = sub

VARIABLES
  supabase,     \* TRUE iff the store client was constructed (server.js:28)
  genAI,        \* TRUE iff the completion client was constructed (server.js:33)
  verifyToken,  \* process.env.WHATSAPP_VERIFY_TOKEN, Undefined when unset
  chatbots,     \* the store's chatbots table, in insertion order
  nextBotId,    \* the store's id generator for chatbots
  req,          \* the HTTP request handled last
  res,          \* its response, with the dependency calls the handler made
  hooks,        \* the POST /webhook deliveries: where each one is, its locals
  customers,    \* the store's whatsapp_customers table, in insertion order
  conversations,\* the store's whatsapp_conversations table, in insertion order
  orders,       \* the store's whatsapp_orders table, in insertion order
  faults,       \* the number of external calls that have failed so far
  botMessages,  \* widget: the children of #bot-messages, in document order
  botNameHeader,\* widget: the innerText of #bot-name
  botInput,     \* widget: value and disabled of #bot-input
  sendBtn,      \* widget: disabled of #bot-send-btn
  fetches       \* widget: the requests in flight and the calls awaiting them

apiVars == <<chatbots, nextBotId, req, res>>
cfgVars == <<supabase, genAI, verifyToken>>
hookVars == <<hooks, customers, conversations, orders, faults>>
widgetVars == <<botMessages, botNameHeader, botInput, sendBtn, fetches>>
vars ==
  <<supabase, genAI, verifyToken, chatbots, nextBotId, req, res,
    hooks, customers, conversations, orders, faults,
    botMessages, botNameHeader, botInput, sendBtn, fetches>>

\* The page before the widget's script has run.
NoWidget ==
  /\ botMessages = <<>>
  /\ botNameHeader = ""
  /\ botInput = [value |-> <<>>, disabled |-> FALSE]
  /\ sendBtn = [disabled |-> FALSE]
  /\ fetches = <<>>

\* ------------------------------------------------------ external outcomes
\* What the store returns when a call fails: supabase-js resolves the query
\* to {data: null, error} and does not reject (the handlers read `error`).
StoreErrorMessage == "connection to store failed"

\* Texts the completion API may generate.
Replies == {"We sell coffee.", "I do not have that information."}

\* Messages of the errors generateContent may reject with.
ApiKeyText == <<"A", "P", "I", " ", "k", "e", "y">>
QuotaText == <<"q", "u", "o", "t", "a">>
GenErrors ==
  { [message |-> ApiKeyText \o <<" ", "b", "a", "d">>],
    [message |-> <<"n", "o", " ">> \o QuotaText],
    [message |-> <<"q", "u", "o", "t", "a", "s", " ", "A", "P", "I", " ", "k", "e", "y">>],
    [message |-> <<"t", "i", "m", "e", "o", "u", "t">>],
    [code |-> "E"] }

\* Outcomes of model.generateContent(prompt): a text, or a rejection.
GenOutcomes ==
  { [ok |-> TRUE, text |-> t] : t \in Replies }
    \cup { [ok |-> FALSE, err |-> e] : e \in GenErrors }

\* err.message?.includes(sub) (server.js:220, 226).
messageIncludes(err, sub) ==
  IF "message" \in DOMAIN err THEN includes(err.message, sub) ELSE FALSE

\* ----------------------------------------------------------- the store
rowsByIdAny(id) == chatbots

\* .from('chatbots').select(...).eq('id', id): the rows with that id.
rowsById(id) == SelectSeq(chatbots, LAMBDA b : b.id = id)

\* A response, with the number of store and completion calls made for it.
Response(status, body, nStore, nGen) ==
  [status |-> status, body |-> body, storeCalls |-> nStore, genCalls |-> nGen]

\* ------------------------------------------------------- POST /api/chat
\* fault: the store call fails; gen: the outcome of the completion call.
chatCatchGeneric(err) ==
  Response(500,
    [reply |-> "I'm having trouble processing your message. Please try again."], 1, 1)

chatCatch(err) ==
  IF messageIncludes(err, ApiKeyText)
    THEN Response(500,
           [reply |-> "AI service configuration error. Please contact support."], 1, 1)
  ELSE IF messageIncludes(err, QuotaText)
    THEN Response(429,
           [reply |-> "AI service is temporarily busy. Please try again in a moment."], 1, 1)
  ELSE Response(500,
         [reply |-> "I'm having trouble processing your message. Please try again."], 1, 1)

\* The reply of the input validation, Undefined when the inputs pass.
chatInputErrorNoBotId(message, botId) ==
  IF Falsy(message) THEN "Message is required" ELSE Undefined

chatInputError(message, botId) ==
  IF Falsy(message) THEN "Message is required"
  ELSE IF Falsy(botId) THEN "Bot ID is required"
  ELSE Undefined

\* The reply of the configuration check, Undefined when both clients exist.
chatConfigError ==
  IF ~supabase THEN "Database not configured. Please contact support."
  ELSE IF ~genAI THEN "AI service not configured. Please contact support."
  ELSE Undefined

\* The branch `if (!bot)` (server.js:174) is not taken: .single() reports an
\* error unless exactly one row matched.
chat(message, botId, fault, gen) ==
  IF chatInputError(message, botId) # Undefined
    THEN Response(400, [reply |-> chatInputError(message, botId)], 0, 0)
  ELSE IF chatConfigError # Undefined
    THEN Response(503, [reply |-> chatConfigError], 0, 0)
  ELSE IF fault \/ Len(rowsById(botId)) # 1
    THEN Response(404, [reply |-> "Bot not found. Please check the bot ID."], 1, 0)
  ELSE IF gen.ok
    THEN Response(200, [reply |-> gen.text, success |-> TRUE], 1, 1)
  ELSE chatCatch(gen.err)

\* ----------------------------------------------------- POST /api/create-bot
\* The row the store inserts: it generates the id and created_at.
newBot(name, greeting, context) ==
  [id |-> ToString(nextBotId), name |-> name, greeting |-> greeting,
   context |-> IF Falsy(context) THEN "" ELSE context,
   created_at |-> nextBotId]

\* outcome: "ok", "error" (the store reports an error) or "empty" (the insert
\* returns no row).
createBot(name, greeting, context, outcome) ==
  IF ~supabase
    THEN Response(503, [success |-> FALSE,
           error |-> "Database not configured. Please set SUPABASE_URL and SUPABASE_KEY."],
           0, 0)
  ELSE IF Falsy(name) \/ Falsy(greeting)
    THEN Response(400, [success |-> FALSE, error |-> "Name and greeting are required"],
           0, 0)
  ELSE IF outcome = "error"
    THEN Response(500, [success |-> FALSE, error |-> StoreErrorMessage], 1, 0)
  ELSE IF outcome = "empty"
    THEN Response(500, [success |-> FALSE, error |-> "Failed to create bot"], 1, 0)
  ELSE Response(200, [success |-> TRUE, id |-> ToString(nextBotId),
         bot |-> newBot(name, greeting, context)], 1, 0)

\* ------------------------------------------------------- GET /api/get-bot
getBotInputErrorNone(id) == Undefined

getBotInputError(id) ==
  IF Falsy(id) THEN "Bot ID is required" ELSE Undefined

getBot(id, fault) ==
  IF ~supabase
    THEN Response(503,
           [error |-> "Database not configured. Please set SUPABASE_URL and SUPABASE_KEY."],
           0, 0)
  ELSE IF getBotInputError(id) # Undefined
    THEN Response(400, [error |-> getBotInputError(id)], 0, 0)
  ELSE IF fault \/ Len(rowsById(id)) # 1
    THEN Response(404, [error |-> "Bot not found"], 1, 0)
  ELSE Response(200, rowsById(id)[1], 1, 0)

\* ------------------------------------------------------ GET /api/list-bots
Reverse(s) == [i \in 1..Len(s) |-> s[Len(s) + 1 - i]]

\* .order('created_at', {ascending: false}): the table is kept in insertion
\* order and created_at grows with every insert.
newestFirst(rows) == Reverse(rows)

listBots(fault) ==
  IF ~supabase
    THEN Response(503, [success |-> FALSE,
           error |-> "Database not configured. Please set SUPABASE_URL and SUPABASE_KEY."],
           0, 0)
  ELSE IF fault
    THEN Response(500, [success |-> FALSE, error |-> StoreErrorMessage], 1, 0)
  ELSE Response(200, [success |-> TRUE, bots |-> newestFirst(chatbots)], 1, 0)

\* -------------------------------------------------- PUT /api/update-bot/:id
\* .update({name, greeting, context}): a field that is undefined is not sent.
updated(b, name, greeting, context) ==
  [b EXCEPT !.name = IF name = Undefined THEN @ ELSE name,
            !.greeting = IF greeting = Undefined THEN @ ELSE greeting,
            !.context = IF context = Undefined THEN @ ELSE context]

updateBot(id, name, greeting, context, fault) ==
  IF ~supabase
    THEN Response(503, [success |-> FALSE,
           error |-> "Database not configured. Please set SUPABASE_URL and SUPABASE_KEY."],
           0, 0)
  ELSE IF fault
    THEN Response(500, [success |-> FALSE, error |-> StoreErrorMessage], 1, 0)
  ELSE IF Len(rowsById(id)) = 0
    THEN Response(404, [success |-> FALSE, error |-> "Bot not found"], 1, 0)
  ELSE Response(200, [success |-> TRUE,
         bot |-> updated(rowsById(id)[1], name, greeting, context)], 1, 0)

\* ----------------------------------------------- DELETE /api/delete-bot/:id
deleteBotUnchecked(id, fault) ==
  IF fault
    THEN Response(500, [success |-> FALSE, error |-> StoreErrorMessage], 1, 0)
  ELSE Response(200, [success |-> TRUE, message |-> "Bot deleted successfully"], 1, 0)

deleteBot(id, fault) ==
  IF ~supabase
    THEN Response(503, [success |-> FALSE,
           error |-> "Database not configured. Please set SUPABASE_URL and SUPABASE_KEY."],
           0, 0)
  ELSE IF fault
    THEN Response(500, [success |-> FALSE, error |-> StoreErrorMessage], 1, 0)
  ELSE Response(200, [success |-> TRUE, message |-> "Bot deleted successfully"], 1, 0)

\* ------------------------------------------------------------ GET /webhook
\* res.sendStatus(code) sends the status text as the body;
\* res.send(undefined) sends an empty body.
verifyWebhookEchoToken(mode, token, challenge) ==
  IF mode = "subscribe" /\ token = verifyToken
    THEN Response(200, IF token = Undefined THEN "" ELSE token, 0, 0)
    ELSE Response(403, "Forbidden", 0, 0)

verifyWebhook(mode, token, challenge) ==
  IF mode = "subscribe" /\ token = verifyToken
    THEN Response(200, IF challenge = Undefined THEN "" ELSE challenge, 0, 0)
    ELSE Response(403, "Forbidden", 0, 0)

\* ------------------------------------------------------- request inputs
BotIds == {ToString(i) : i \in 1..MaxBots}
QueryIds == {Undefined, "nope"} \cup BotIds
PathIds == {"nope"} \cup BotIds
ChatMessages == {Undefined, "", "what do you sell?"}
BotNames == {Undefined, "Cafe Bot"}
Greetings == {Undefined, "Hi!"}
Contexts == {Undefined, "We sell coffee."}
HubModes == {Undefined, "subscribe", "unsubscribe"}
HubTokens == {Undefined, "s3cret", "guess"}
HubChallenges == {Undefined, "1158201444", "challenge-2"}

\* ------------------------------------------------------ the API's actions
\* An outcome is drawn only for a call the handler makes: for a call that is
\* not made, the outcome is pinned to one value and not recorded.
NoCall == "not called"
Pinned(made, outcome, pin) == made \/ outcome = pin
Recorded(made, outcome) == IF made THEN outcome ELSE NoCall
PinGen == CHOOSE g \in GenOutcomes : g.ok

ApiChat ==
  \E message \in ChatMessages, botId \in QueryIds, fault \in BOOLEAN,
     gen \in GenOutcomes :
    LET r == chat(message, botId, fault, gen) IN
    /\ Pinned(r.storeCalls > 0, fault, FALSE)
    /\ Pinned(r.genCalls > 0, gen, PinGen)
    /\ req' = [endpoint |-> "chat", message |-> message, botId |-> botId,
               fault |-> Recorded(r.storeCalls > 0, fault),
               gen |-> Recorded(r.genCalls > 0, gen)]
    /\ res' = r
    /\ UNCHANGED <<cfgVars, widgetVars, chatbots, nextBotId, hookVars>>

ApiCreateBot ==
  \E name \in BotNames, greeting \in Greetings, context \in Contexts,
     outcome \in {"ok", "error", "empty"} :
    LET r == createBot(name, greeting, context, outcome) IN
    /\ nextBotId <= MaxBots
    /\ Pinned(r.storeCalls > 0, outcome, "ok")
    /\ req' = [endpoint |-> "create-bot", name |-> name, greeting |-> greeting,
               context |-> context, outcome |-> Recorded(r.storeCalls > 0, outcome)]
    /\ res' = r
    /\ IF r.status = 200
         THEN /\ chatbots' = Append(chatbots, newBot(name, greeting, context))
              /\ nextBotId' = nextBotId + 1
         ELSE UNCHANGED <<chatbots, nextBotId>>
    /\ UNCHANGED <<cfgVars, widgetVars, hookVars>>

ApiGetBot ==
  \E id \in QueryIds, fault \in BOOLEAN :
    LET r == getBot(id, fault) IN
    /\ Pinned(r.storeCalls > 0, fault, FALSE)
    /\ req' = [endpoint |-> "get-bot", id |-> id,
               fault |-> Recorded(r.storeCalls > 0, fault)]
    /\ res' = r
    /\ UNCHANGED <<cfgVars, widgetVars, chatbots, nextBotId, hookVars>>

ApiListBots ==
  \E fault \in BOOLEAN :
    LET r == listBots(fault) IN
    /\ Pinned(r.storeCalls > 0, fault, FALSE)
    /\ req' = [endpoint |-> "list-bots",
               fault |-> Recorded(r.storeCalls > 0, fault)]
    /\ res' = r
    /\ UNCHANGED <<cfgVars, widgetVars, chatbots, nextBotId, hookVars>>

ApiUpdateBot ==
  \E id \in PathIds, name \in BotNames, greeting \in Greetings,
     context \in Contexts, fault \in BOOLEAN :
    LET r == updateBot(id, name, greeting, context, fault) IN
    /\ Pinned(r.storeCalls > 0, fault, FALSE)
    /\ req' = [endpoint |-> "update-bot", id |-> id, name |-> name,
               greeting |-> greeting, context |-> context,
               fault |-> Recorded(r.storeCalls > 0, fault)]
    /\ res' = r
    /\ chatbots' = IF r.status = 200
                     THEN [i \in 1..Len(chatbots) |->
                             IF chatbots[i].id = id
                               THEN updated(chatbots[i], name, greeting, context)
                               ELSE chatbots[i]]
                     ELSE chatbots
    /\ UNCHANGED <<cfgVars, widgetVars, nextBotId, hookVars>>

ApiDeleteBot ==
  \E id \in PathIds, fault \in BOOLEAN :
    LET r == deleteBot(id, fault) IN
    /\ Pinned(r.storeCalls > 0, fault, FALSE)
    /\ req' = [endpoint |-> "delete-bot", id |-> id,
               fault |-> Recorded(r.storeCalls > 0, fault)]
    /\ res' = r
    /\ chatbots' = IF r.status = 200
                     THEN SelectSeq(chatbots, LAMBDA b : b.id # id)
                     ELSE chatbots
    /\ UNCHANGED <<cfgVars, widgetVars, nextBotId, hookVars>>

WebhookVerify ==
  \E mode \in HubModes, token \in HubTokens, challenge \in HubChallenges :
    /\ req' = [endpoint |-> "webhook-verify", mode |-> mode, token |-> token,
               challenge |-> challenge]
    /\ res' = verifyWebhook(mode, token, challenge)
    /\ UNCHANGED <<cfgVars, widgetVars, chatbots, nextBotId, hookVars>>

\* The state after startup: the clients exist iff their environment variables
\* were set; no request has been handled.
Init ==
  /\ supabase \in BOOLEAN
  /\ genAI \in BOOLEAN
  /\ verifyToken \in {Undefined, "s3cret"}
  /\ chatbots = <<>>
  /\ nextBotId = 1
  /\ req = [endpoint |-> "none"]
  /\ res = Response(0, "", 0, 0)
  /\ hooks = <<>>
  /\ customers = <<>>
  /\ conversations = <<>>
  /\ orders = <<>>
  /\ faults = 0
  /\ NoWidget

Next ==
  \/ ApiChat
  \/ ApiCreateBot
  \/ ApiGetBot
  \/ ApiListBots
  \/ ApiUpdateBot
  \/ ApiDeleteBot
  \/ WebhookVerify

Spec == Init /\ [][Next]_vars

\* ================================================== the WhatsApp pipeline
\* Inbound message texts are sequences of characters.
UpperCase ==
  <<"A", "B", "C", "D", "E", "F", "G", "H", "I", "J", "K", "L", "M",
    "N", "O", "P", "Q", "R", "S", "T", "U", "V", "W", "X", "Y", "Z">>
LowerCase ==
  <<"a", "b", "c", "d", "e", "f", "g", "h", "i", "j", "k", "l", "m",
    "n", "o", "p", "q", "r", "s", "t", "u", "v", "w", "x", "y", "z">>

toLowerCaseKeep(s) == s

toLowerCase(s) ==
  [i \in 1..Len(s) |->
     IF \E k \in 1..Len(UpperCase) : UpperCase[k] = s[i]
       THEN LowerCase[CHOOSE k \in 1..Len(UpperCase) : UpperCase[k] = s[i]]
       ELSE s[i]]

orderKeywords ==
  << <<"o", "r", "d", "e", "r">>, <<"m", "e", "n", "u">>, <<"f", "o", "o", "d">>,
     <<"h", "u", "n", "g", "r", "y">>, <<"e", "a", "t">>,
     <<"d", "e", "l", "i", "v", "e", "r", "y">>, <<"p", "i", "c", "k", "u", "p">>,
     <<"w", "a", "n", "t">>, <<"g", "e", "t">>, <<"b", "u", "y">>,
     <<"p", "u", "r", "c", "h", "a", "s", "e">>, <<"p", "l", "a", "c", "e">> >>

detectOrderIntent(message) ==
  \E k \in 1..Len(orderKeywords) :
    includes(toLowerCase(message), orderKeywords[k])

\* message.text?.body of a message that carries no text.
NoText == <<"<undefined>">>
\* data: null, a query that yields no row.
NoRow == [null |-> TRUE]
IsRow(c) == "id" \in DOMAIN c

\* The limit handleIntelligentMessage asks the history for.
HistoryLimit == 5

ApologyText == "Sorry, I having some trouble right now. Give me a second!"
OrderFallbackReply == "Hey! Ready to order? I'll send you the link."
SmartFallbackReply == "Thanks for your message! How can I help you today?"
\* The texts result.response.text() may return on the messaging path.
HookReplies == {"How you doing? Nice to hear from you again!"}

\* The body text of the interactive message, without its trailing emoji.
orderButtonText(customerName) ==
  "Alright " \o customerName \o ", ready when you are!"
buttonFallbackText(customerName) ==
  "Sorry " \o customerName \o ", having trouble with the order button. Try again in a moment!"

\* customer.customer_name || 'friend' (server.js:531).
displayName(customer) ==
  IF Falsy(customer.customer_name) THEN "friend" ELSE customer.customer_name

\* ---------------------------------------------------- store queries
\* .eq('phone_number', phoneNumber)
customersByPhone(phoneNumber) ==
  SelectSeq(customers, LAMBDA c : c.phone_number = phoneNumber)

\* .single(): the row when exactly one matched, otherwise data is null.
single(rows) == IF Len(rows) = 1 THEN rows[1] ELSE NoRow

\* .order('created_at', {ascending: false})
RECURSIVE orderByCreatedAtDesc(_)
orderByCreatedAtDesc(rows) ==
  IF rows = <<>> THEN <<>>
  ELSE LET i == CHOOSE i \in 1..Len(rows) :
                  \A j \in 1..Len(rows) : rows[j].created_at <= rows[i].created_at
       IN <<rows[i]>> \o
            orderByCreatedAtDesc(SubSeq(rows, 1, i - 1) \o SubSeq(rows, i + 1, Len(rows)))

\* .limit(n)
limit(rows, n) == SubSeq(rows, 1, IF Len(rows) < n THEN Len(rows) ELSE n)

\* .select('message_type, message_content, created_at')
historyColumns(rows) ==
  [i \in 1..Len(rows) |->
     [message_type |-> rows[i].message_type,
      message_content |-> rows[i].message_content,
      created_at |-> rows[i].created_at]]

getConversationHistoryNewestFirst(phoneNumber, n) ==
  historyColumns(
    limit(orderByCreatedAtDesc(
            SelectSeq(conversations, LAMBDA e : e.phone_number = phoneNumber)), n))

\* data.reverse() of the query's rows (server.js:601-610); the caller models
\* the failed query, where data is null and the function returns [].
getConversationHistory(phoneNumber, n) ==
  Reverse(historyColumns(
    limit(orderByCreatedAtDesc(
            SelectSeq(conversations, LAMBDA e : e.phone_number = phoneNumber)), n)))

conversationRow(customerId, phoneNumber, type, content) ==
  [customer_id |-> customerId, phone_number |-> phoneNumber,
   message_type |-> type, message_content |-> content,
   created_at |-> Len(conversations) + 1]

orderRow(customerId, phoneNumber) ==
  [customer_id |-> customerId, phone_number |-> phoneNumber, status |-> "pending"]

\* The row .insert([{phone_number, customer_name, total_interactions: 1}])
\* creates; the store generates the id.
customerRow(phoneNumber, name) ==
  [id |-> Len(customers) + 1, phone_number |-> phoneNumber,
   customer_name |-> name, total_interactions |-> 1]

\* name || customer.customer_name
keptName(name, customer) ==
  IF Falsy(name) THEN customer.customer_name ELSE name

customersUpdatedAtomic(phoneNumber, name, read) ==
  [i \in 1..Len(customers) |->
     IF customers[i].phone_number = phoneNumber
       THEN [customers[i] EXCEPT
               !.total_interactions = @ + 1,
               !.customer_name = keptName(name, read)]
       ELSE customers[i]]

customersUpdatedUncounted(phoneNumber, name, read) ==
  [i \in 1..Len(customers) |->
     IF customers[i].phone_number = phoneNumber
       THEN [customers[i] EXCEPT !.customer_name = keptName(name, read)]
       ELSE customers[i]]

\* .update({...}).eq('phone_number', phoneNumber) with the values computed
\* from the row `read` that the caller selected earlier.
customersUpdated(phoneNumber, name, read) ==
  [i \in 1..Len(customers) |->
     IF customers[i].phone_number = phoneNumber
       THEN [customers[i] EXCEPT
               !.total_interactions = read.total_interactions + 1,
               !.customer_name = keptName(name, read)]
       ELSE customers[i]]

\* ------------------------------------------------------ persona prompts
\* const isReturning = customer.total_interactions > 1 (server.js:640)
isReturning(customer) == customer.total_interactions > 1

\* The parameters of the systemInstruction given to the completion model: the
\* order persona names the customer and carries the returning flag
\* (server.js:639-651), the general persona names the customer only
\* (server.js:666-673).
NoPersona == [customer |-> Undefined]
orderPersona(customer) ==
  [customer |-> displayName(customer),
   returning |-> IF isReturning(customer) THEN "Yes" ELSE "No"]
smartPersona(customer) == [customer |-> displayName(customer)]

\* ------------------------------------------------- deliveries and locals
Deliveries == 1..MaxDeliveries

\* A delivery that has not arrived. pc names the await the delivery is
\* suspended at; trace lists the steps it has completed, failed the steps
\* that failed, sent the messages it asked the platform to send.
IdleHook ==
  [pc |-> "idle", status |-> 0, from |-> Undefined, text |-> NoText,
   name |-> Undefined, customer |-> NoRow, history |-> <<>>,
   isOrderIntent |-> FALSE, persona |-> NoPersona, aiResponse |-> Undefined,
   trace |-> <<>>, failed |-> {}, sent |-> <<>>]

step(h, pc, event) == [h EXCEPT !.pc = pc, !.trace = Append(@, event)]
failing(h, ok, what) == IF ok THEN h ELSE [h EXCEPT !.failed = @ \cup {what}]
sending(h, type, text, ok) ==
  [h EXCEPT !.sent = Append(@, [to |-> h.from, type |-> type, text |-> text,
                                 ok |-> ok])]

\* res.sendStatus(200) (server.js:93)
acknowledgeLater(h) == h

acknowledge(h) == [h EXCEPT !.status = 200, !.trace = Append(@, "ack")]

\* The catch of handleIntelligentMessage: it calls sendTextMessage with the
\* apology and awaits it (server.js:548-550).
caughtSilently(h, what) ==
  [h EXCEPT !.pc = "done", !.trace = Append(@, "caught"),
            !.failed = @ \cup {what}]

caught(h, what) ==
  [h EXCEPT !.pc = "apology", !.trace = Append(@, "caught"),
            !.failed = @ \cup {what}]

webhookPostLastMessage(h, body) ==
  LET a == acknowledge(h) IN
  IF body.object # "whatsapp_business_account" \/ "messages" \notin DOMAIN body
    THEN [a EXCEPT !.pc = "done"]
  ELSE IF Len(body.messages) = 0
    THEN [a EXCEPT !.pc = "done", !.trace = Append(@, "webhookError"),
                   !.failed = @ \cup {"envelope"}]
  ELSE LET message == body.messages[Len(body.messages)] IN
       [a EXCEPT !.pc = "readReceipt",
                 !.from = message.from,
                 !.text = IF "text" \in DOMAIN message THEN message.text ELSE NoText,
                 !.name = body.name]

\* The handler up to its first await (server.js:88-111): the acknowledgement,
\* the envelope checks, and the call of sendReadReceipt. A messages array
\* that is empty makes `message.from` throw into the handler's own catch.
webhookPost(h, body) ==
  LET a == acknowledge(h) IN
  IF body.object # "whatsapp_business_account" \/ "messages" \notin DOMAIN body
    THEN [a EXCEPT !.pc = "done"]
  ELSE IF Len(body.messages) = 0
    THEN [a EXCEPT !.pc = "done", !.trace = Append(@, "webhookError"),
                   !.failed = @ \cup {"envelope"}]
  ELSE LET message == body.messages[1] IN
       [a EXCEPT !.pc = "readReceipt",
                 !.from = message.from,
                 !.text = IF "text" \in DOMAIN message THEN message.text ELSE NoText,
                 !.name = body.name]

\* sendReadReceipt settles; its catch swallows a failure (server.js:475-494).
\* Then sendTypingIndicator starts its timer.
readReceiptSettled(h, ok) ==
  step(failing(h, ok, "readReceipt"), "typing", "readReceipt")

\* The 2000 ms pause is over: handleIntelligentMessage starts and
\* getOrCreateCustomer calls supabase.from, which throws when supabase is null.
typingElapsed(h) ==
  LET t == step(h, "select", "typing") IN
  IF supabase THEN t ELSE caught(t, "storeClient")

\* The select of getOrCreateCustomer settles (server.js:556-562).
customerSelected(h, ok) ==
  LET customer == IF ok THEN single(customersByPhone(h.from)) ELSE NoRow
      t == step(failing(h, ok, "select"), "insert", "select")
  IN IF IsRow(customer)
       THEN [t EXCEPT !.pc = "update", !.customer = customer]
       ELSE t

\* The update settles; its result is not read (server.js:563-572).
customerUpdated(h, ok) ==
  [step(failing(h, ok, "update"), "saveIncoming", "update")
     EXCEPT !.customer.customer_name = keptName(h.name, h.customer)]

\* The insert settles (server.js:574-584); with data null the caller's
\* `customer.id` throws.
customerInserted(h, ok) ==
  LET t == step(failing(h, ok, "insert"), "saveIncoming", "insert") IN
  IF ok THEN [t EXCEPT !.customer = customerRow(h.from, h.name)]
        ELSE caught(t, "customer")

incomingSavedNoHistory(h, ok) ==
  step(failing(h, ok, "saveIncoming"), "typing2", "saveIncoming")

\* saveConversation(..., 'incoming', message) settles; its result is not read.
incomingSaved(h, ok) ==
  step(failing(h, ok, "saveIncoming"), "history", "saveIncoming")

\* getConversationHistory settles, then detectOrderIntent runs, which throws
\* on a message without text, then the branch starts its typing pause.
intentAlwaysGeneral(h) == [h EXCEPT !.isOrderIntent = FALSE]

classified(h) == [h EXCEPT !.isOrderIntent = detectOrderIntent(h.text)]

historyFetched(h, ok) ==
  LET t == [step(failing(h, ok, "history"), "typing2", "history")
              EXCEPT !.history = IF ok THEN getConversationHistory(h.from, HistoryLimit)
                                       ELSE <<>>]
  IN IF t.text = NoText
       THEN caught(t, "intent")
       ELSE classified([t EXCEPT !.trace = Append(@, "intent")])

\* The branch's typing pause is over: the reply is generated. With genAI null
\* the generator returns its fixed text and the reply is sent at once.
replyTypingElapsed(h) ==
  LET t == step(h, "generate", "replyTyping") IN
  IF genAI
    THEN [t EXCEPT !.persona = IF h.isOrderIntent THEN orderPersona(h.customer)
                                                  ELSE smartPersona(h.customer)]
  ELSE [t EXCEPT !.pc = "sendReply",
                 !.trace = Append(@, "generate"),
                 !.aiResponse = IF h.isOrderIntent THEN OrderFallbackReply
                                                   ELSE SmartFallbackReply]

\* model.generateContent settles: a text, or a rejection that reaches the catch.
generated(h, ok, text) ==
  LET t == step(h, "sendReply", "generate") IN
  IF ok THEN [t EXCEPT !.aiResponse = text] ELSE caught(t, "generate")

\* sendTextMessage(phoneNumber, aiResponse) settles; its catch swallows a
\* failure (server.js:694-716).
replySentAlwaysOrder(h, ok) ==
  step(sending(failing(h, ok, "sendReply"), "text", h.aiResponse, ok),
       "delay", "sendReply")

replySentUnlogged(h, ok) ==
  step(sending(failing(h, ok, "sendReply"), "text", h.aiResponse, ok),
       IF h.isOrderIntent THEN "delay" ELSE "done", "sendReply")

replySent(h, ok) ==
  step(sending(failing(h, ok, "sendReply"), "text", h.aiResponse, ok),
       IF h.isOrderIntent THEN "delay" ELSE "saveOutgoing", "sendReply")

\* The 1000 ms pause before the button is over.
delayElapsed(h) == step(h, "button", "delay")

buttonSentNoFallback(h, ok) ==
  step(sending(failing(h, ok, "button"), "interactive",
               orderButtonText(displayName(h.customer)), ok),
       "order", "button")

\* The interactive message settles; on failure sendOrderButton's catch sends
\* the plain-text fallback (server.js:719-760).
buttonSent(h, ok) ==
  step(sending(failing(h, ok, "button"), "interactive",
               orderButtonText(displayName(h.customer)), ok),
       IF ok THEN "order" ELSE "buttonFallback", "button")

buttonFallbackSent(h, ok) ==
  step(sending(failing(h, ok, "buttonFallback"), "text",
               buttonFallbackText(displayName(h.customer)), ok),
       "order", "buttonFallback")

\* createOrderRecord settles; its result is not read.
orderCreated(h, ok) == step(failing(h, ok, "order"), "saveOutgoing", "order")

\* saveConversation(..., 'outgoing', aiResponse) settles.
outgoingSaved(h, ok) == step(failing(h, ok, "saveOutgoing"), "done", "saveOutgoing")

\* The apology's sendTextMessage settles.
apologySent(h, ok) ==
  step(sending(failing(h, ok, "apology"), "text", ApologyText, ok),
       "done", "apology")

\* ------------------------------------------------------ webhook inputs
\* Three senders: one the store already knows, one it does not, and one that
\* only appears in the earlier conversation log.
KnownPhone == "12465550101"
NewPhone == "12465550102"
OtherPhone == "12465550103"
TextGreat == <<"G", "r", "E", "A", "T">>
TextHi == <<"h", "i">>
TextSplit == <<"g", "e", " ", "t">>
TextMenu == <<"M", "e", "n", "u", "?">>

Inbound(from, text) == [from |-> from, id |-> "wamid.1", text |-> text]
Envelope(name, messages) ==
  [object |-> "whatsapp_business_account", name |-> name, messages |-> messages]

\* req.body: another object type, a notification without messages, an empty
\* messages array, one message (with or without text, with or without a
\* profile name), two messages.
Envelopes ==
  { [object |-> "page", name |-> Undefined],
    [object |-> "whatsapp_business_account", name |-> Undefined],
    Envelope(Undefined, <<>>),
    Envelope(Undefined, << Inbound(KnownPhone, TextGreat) >>),
    Envelope(Undefined, << Inbound(NewPhone, TextGreat) >>),
    Envelope("Bea", << Inbound(NewPhone, TextHi) >>),
    Envelope(Undefined, << [from |-> NewPhone, id |-> "wamid.1"] >>),
    Envelope("Ann B", << Inbound(KnownPhone, TextSplit), Inbound(NewPhone, TextMenu) >>) }

\* --------------------------------------------------- the pipeline's actions
\* An external call may fail while the run's budget of failures lasts.
MayBe(ok) == ok \/ faults < MaxFaults
Counted(ok) == IF ok THEN faults ELSE faults + 1

At(r, pc) == hooks[r].pc = pc
Becomes(r, h) == hooks' = [hooks EXCEPT ![r] = h]

WebhookPost(r) ==
  \E body \in Envelopes :
    /\ At(r, "idle")
    /\ IF r = 1 THEN TRUE ELSE ~At(r - 1, "idle")
    /\ Becomes(r, webhookPost(hooks[r], body))
    /\ UNCHANGED <<cfgVars, widgetVars, apiVars, customers, conversations, orders, faults>>

SendReadReceipt(r) ==
  \E ok \in BOOLEAN :
    /\ At(r, "readReceipt")
    /\ MayBe(ok)
    /\ Becomes(r, readReceiptSettled(hooks[r], ok))
    /\ faults' = Counted(ok)
    /\ UNCHANGED <<cfgVars, widgetVars, apiVars, customers, conversations, orders>>

SendTypingIndicator(r) ==
  /\ At(r, "typing")
  /\ Becomes(r, typingElapsed(hooks[r]))
  /\ UNCHANGED <<cfgVars, widgetVars, apiVars, customers, conversations, orders, faults>>

SelectCustomer(r) ==
  \E ok \in BOOLEAN :
    /\ At(r, "select")
    /\ MayBe(ok)
    /\ Becomes(r, customerSelected(hooks[r], ok))
    /\ faults' = Counted(ok)
    /\ UNCHANGED <<cfgVars, widgetVars, apiVars, customers, conversations, orders>>

UpdateCustomer(r) ==
  \E ok \in BOOLEAN :
    /\ At(r, "update")
    /\ MayBe(ok)
    /\ Becomes(r, customerUpdated(hooks[r], ok))
    /\ customers' = IF ok
                      THEN customersUpdated(hooks[r].from, hooks[r].name,
                                            hooks[r].customer)
                      ELSE customers
    /\ faults' = Counted(ok)
    /\ UNCHANGED <<cfgVars, widgetVars, apiVars, conversations, orders>>

InsertCustomer(r) ==
  \E ok \in BOOLEAN :
    /\ At(r, "insert")
    /\ MayBe(ok)
    /\ Becomes(r, customerInserted(hooks[r], ok))
    /\ customers' = IF ok
                      THEN Append(customers, customerRow(hooks[r].from, hooks[r].name))
                      ELSE customers
    /\ faults' = Counted(ok)
    /\ UNCHANGED <<cfgVars, widgetVars, apiVars, conversations, orders>>

SaveIncoming(r) ==
  \E ok \in BOOLEAN :
    /\ At(r, "saveIncoming")
    /\ MayBe(ok)
    /\ Becomes(r, incomingSaved(hooks[r], ok))
    /\ conversations' =
         IF ok THEN Append(conversations,
                      conversationRow(hooks[r].customer.id, hooks[r].from,
                                      "incoming", hooks[r].text))
               ELSE conversations
    /\ faults' = Counted(ok)
    /\ UNCHANGED <<cfgVars, widgetVars, apiVars, customers, orders>>

FetchHistory(r) ==
  \E ok \in BOOLEAN :
    /\ At(r, "history")
    /\ MayBe(ok)
    /\ Becomes(r, historyFetched(hooks[r], ok))
    /\ faults' = Counted(ok)
    /\ UNCHANGED <<cfgVars, widgetVars, apiVars, customers, conversations, orders>>

ReplyTyping(r) ==
  /\ At(r, "typing2")
  /\ Becomes(r, replyTypingElapsed(hooks[r]))
  /\ UNCHANGED <<cfgVars, widgetVars, apiVars, customers, conversations, orders, faults>>

GenerateReply(r) ==
  \E ok \in BOOLEAN, text \in HookReplies :
    /\ At(r, "generate")
    /\ MayBe(ok)
    /\ Becomes(r, generated(hooks[r], ok, text))
    /\ faults' = Counted(ok)
    /\ UNCHANGED <<cfgVars, widgetVars, apiVars, customers, conversations, orders>>

SendReply(r) ==
  \E ok \in BOOLEAN :
    /\ At(r, "sendReply")
    /\ MayBe(ok)
    /\ Becomes(r, replySent(hooks[r], ok))
    /\ faults' = Counted(ok)
    /\ UNCHANGED <<cfgVars, widgetVars, apiVars, customers, conversations, orders>>

OrderDelay(r) ==
  /\ At(r, "delay")
  /\ Becomes(r, delayElapsed(hooks[r]))
  /\ UNCHANGED <<cfgVars, widgetVars, apiVars, customers, conversations, orders, faults>>

SendOrderButton(r) ==
  \E ok \in BOOLEAN :
    /\ At(r, "button")
    /\ MayBe(ok)
    /\ Becomes(r, buttonSent(hooks[r], ok))
    /\ faults' = Counted(ok)
    /\ UNCHANGED <<cfgVars, widgetVars, apiVars, customers, conversations, orders>>

SendButtonFallback(r) ==
  \E ok \in BOOLEAN :
    /\ At(r, "buttonFallback")
    /\ MayBe(ok)
    /\ Becomes(r, buttonFallbackSent(hooks[r], ok))
    /\ faults' = Counted(ok)
    /\ UNCHANGED <<cfgVars, widgetVars, apiVars, customers, conversations, orders>>

CreateOrderRecord(r) ==
  \E ok \in BOOLEAN :
    /\ At(r, "order")
    /\ MayBe(ok)
    /\ Becomes(r, orderCreated(hooks[r], ok))
    /\ orders' = IF ok THEN Append(orders, orderRow(hooks[r].customer.id, hooks[r].from))
                       ELSE orders
    /\ faults' = Counted(ok)
    /\ UNCHANGED <<cfgVars, widgetVars, apiVars, customers, conversations>>

SaveOutgoing(r) ==
  \E ok \in BOOLEAN :
    /\ At(r, "saveOutgoing")
    /\ MayBe(ok)
    /\ Becomes(r, outgoingSaved(hooks[r], ok))
    /\ conversations' =
         IF ok THEN Append(conversations,
                      conversationRow(hooks[r].customer.id, hooks[r].from,
                                      "outgoing", hooks[r].aiResponse))
               ELSE conversations
    /\ faults' = Counted(ok)
    /\ UNCHANGED <<cfgVars, widgetVars, apiVars, customers, orders>>

SendApology(r) ==
  \E ok \in BOOLEAN :
    /\ At(r, "apology")
    /\ MayBe(ok)
    /\ Becomes(r, apologySent(hooks[r], ok))
    /\ faults' = Counted(ok)
    /\ UNCHANGED <<cfgVars, widgetVars, apiVars, customers, conversations, orders>>

\* The tables after four earlier messages: three from the known phone (an
\* order, a general one, and one whose reply generation failed) and one from
\* a phone that sends nothing in this run.
PriorCustomers ==
  << [id |-> 1, phone_number |-> KnownPhone, customer_name |-> "Ann",
      total_interactions |-> 3],
     [id |-> 2, phone_number |-> OtherPhone, customer_name |-> Undefined,
      total_interactions |-> 1] >>

PriorEntry(customerId, phoneNumber, type, content, at) ==
  [customer_id |-> customerId, phone_number |-> phoneNumber,
   message_type |-> type, message_content |-> content, created_at |-> at]

PriorConversations ==
  << PriorEntry(1, KnownPhone, "incoming", TextMenu, 1),
     PriorEntry(1, KnownPhone, "outgoing", OrderFallbackReply, 2),
     PriorEntry(2, OtherPhone, "incoming", TextHi, 3),
     PriorEntry(2, OtherPhone, "outgoing", SmartFallbackReply, 4),
     PriorEntry(1, KnownPhone, "incoming", TextHi, 5),
     PriorEntry(1, KnownPhone, "outgoing", SmartFallbackReply, 6),
     PriorEntry(1, KnownPhone, "incoming", TextSplit, 7) >>

PriorOrders == << orderRow(1, KnownPhone) >>

\* The server after a start with the store holding the earlier messages; no
\* delivery has arrived.
InitWebhook ==
  /\ supabase \in BOOLEAN
  /\ genAI \in BOOLEAN
  /\ verifyToken = Undefined
  /\ chatbots = <<>>
  /\ nextBotId = 1
  /\ req = [endpoint |-> "none"]
  /\ res = Response(0, "", 0, 0)
  /\ hooks = [r \in Deliveries |-> IdleHook]
  /\ customers = PriorCustomers
  /\ conversations = PriorConversations
  /\ orders = PriorOrders
  /\ faults = 0
  /\ NoWidget

NextWebhook ==
  \/ \E r \in Deliveries : WebhookPost(r)
  \/ \E r \in Deliveries : SendReadReceipt(r)
  \/ \E r \in Deliveries : SendTypingIndicator(r)
  \/ \E r \in Deliveries : SelectCustomer(r)
  \/ \E r \in Deliveries : UpdateCustomer(r)
  \/ \E r \in Deliveries : InsertCustomer(r)
  \/ \E r \in Deliveries : SaveIncoming(r)
  \/ \E r \in Deliveries : FetchHistory(r)
  \/ \E r \in Deliveries : ReplyTyping(r)
  \/ \E r \in Deliveries : GenerateReply(r)
  \/ \E r \in Deliveries : SendReply(r)
  \/ \E r \in Deliveries : OrderDelay(r)
  \/ \E r \in Deliveries : SendOrderButton(r)
  \/ \E r \in Deliveries : SendButtonFallback(r)
  \/ \E r \in Deliveries : CreateOrderRecord(r)
  \/ \E r \in Deliveries : SaveOutgoing(r)
  \/ \E r \in Deliveries : SendApology(r)

SpecWebhook == InitWebhook /\ [][NextWebhook]_vars

\* Deliveries that do not overlap: a delivery arrives only when every earlier
\* one has run to its end.
WebhookPostAlone(r) ==
  /\ \A q \in Deliveries : hooks[q].pc \in {"idle", "done"}
  /\ WebhookPost(r)

NextSequential ==
  \/ \E r \in Deliveries : WebhookPostAlone(r)
  \/ \E r \in Deliveries : SendReadReceipt(r)
  \/ \E r \in Deliveries : SendTypingIndicator(r)
  \/ \E r \in Deliveries : SelectCustomer(r)
  \/ \E r \in Deliveries : UpdateCustomer(r)
  \/ \E r \in Deliveries : InsertCustomer(r)
  \/ \E r \in Deliveries : SaveIncoming(r)
  \/ \E r \in Deliveries : FetchHistory(r)
  \/ \E r \in Deliveries : ReplyTyping(r)
  \/ \E r \in Deliveries : GenerateReply(r)
  \/ \E r \in Deliveries : SendReply(r)
  \/ \E r \in Deliveries : OrderDelay(r)
  \/ \E r \in Deliveries : SendOrderButton(r)
  \/ \E r \in Deliveries : SendButtonFallback(r)
  \/ \E r \in Deliveries : CreateOrderRecord(r)
  \/ \E r \in Deliveries : SaveOutgoing(r)
  \/ \E r \in Deliveries : SendApology(r)

SpecSequential == InitWebhook /\ [][NextSequential]_vars

\* ============================================================ the widget
\* src/public/widget.js. Texts typed by the user are sequences of characters.
\* Non-empty messages the user sends in one run of SpecWidget.
MaxSends == 2

\* String.prototype.trim (widget.js:302), for texts whose only whitespace is
\* the space.
RECURSIVE trimStart(_)
trimStart(s) == IF s # <<>> /\ s[1] = " " THEN trimStart(Tail(s)) ELSE s
RECURSIVE trimEnd(_)
trimEnd(s) ==
  IF s # <<>> /\ s[Len(s)] = " " THEN trimEnd(SubSeq(s, 1, Len(s) - 1)) ELSE s
trim(s) == trimEnd(trimStart(s))

DefaultBotName == "AI Assistant"
DefaultGreeting == "Hello! How can I help you?"
FallbackGreeting == "Hello! I'm ready to help you."
NoReplyText == "I received your message but couldn't generate a response."
ConnectionErrorText == "Sorry, I'm having trouble connecting. Please try again."

\* The div addMessage creates (widget.js:250-252).
Bubble(text, sender, isError) ==
  [id |-> "",
   className |-> "msg " \o sender \o "-msg" \o (IF isError THEN " error-msg" ELSE ""),
   innerText |-> text]
\* The div showTyping creates (widget.js:259-262).
TypingIndicator ==
  [id |-> "typing-indicator", className |-> "typing-indicator", innerText |-> ""]

addMessage(messages, text, sender, isError) ==
  Append(messages, Bubble(text, sender, isError))

showTyping(messages) == Append(messages, TypingIndicator)

\* document.getElementById('typing-indicator') is the first element with that
\* id; it is removed when there is one.
hideTyping(messages) ==
  IF \E i \in 1..Len(messages) : messages[i].id = "typing-indicator"
    THEN LET i == CHOOSE i \in 1..Len(messages) :
                    /\ messages[i].id = "typing-indicator"
                    /\ \A j \in 1..(i - 1) : messages[j].id # "typing-indicator"
         IN SubSeq(messages, 1, i - 1) \o SubSeq(messages, i + 1, Len(messages))
    ELSE messages

\* response.ok
responseOk(response) == response.status >= 200 /\ response.status <= 299

Without(s, i) == SubSeq(s, 1, i - 1) \o SubSeq(s, i + 1, Len(s))
ChatCalls(f) == SelectSeq(f, LAMBDA c : c.url = "/api/chat")
Sent(messages) == SelectSeq(messages, LAMBDA m : m.className = "msg user-msg")

\* ----------------------------------------------------- what the server sends
\* Outcomes of fetch(.../api/get-bot?id=...): the request fails in transport,
\* or a response arrives whose body parses as JSON or does not.
GetBotOutcomes ==
  { [rejected |-> TRUE],
    [rejected |-> FALSE, status |-> 200, parses |-> TRUE,
     data |-> [name |-> "Cafe Bot", greeting |-> "Hi!"]],
    [rejected |-> FALSE, status |-> 200, parses |-> TRUE,
     data |-> [name |-> Undefined, greeting |-> ""]],
    [rejected |-> FALSE, status |-> 200, parses |-> FALSE],
    [rejected |-> FALSE, status |-> 404, parses |-> TRUE,
     data |-> [error |-> "Bot not found"]] }

\* Outcomes of fetch(.../api/chat).
ChatOutcomes ==
  { [rejected |-> TRUE],
    [rejected |-> FALSE, status |-> 200, parses |-> TRUE,
     data |-> [reply |-> "We sell coffee.", success |-> TRUE]],
    [rejected |-> FALSE, status |-> 200, parses |-> TRUE,
     data |-> [reply |-> "", success |-> TRUE]],
    [rejected |-> FALSE, status |-> 200, parses |-> TRUE,
     data |-> [success |-> TRUE]],
    [rejected |-> FALSE, status |-> 200, parses |-> FALSE],
    [rejected |-> FALSE, status |-> 404, parses |-> TRUE,
     data |-> [reply |-> "Bot not found. Please check the bot ID."]],
    [rejected |-> FALSE, status |-> 429, parses |-> TRUE,
     data |-> [reply |-> "AI service is temporarily busy. Please try again in a moment."]],
    [rejected |-> FALSE, status |-> 503, parses |-> FALSE] }

\* What the user types into #bot-input.
InputTexts ==
  { <<>>, <<" ", " ">>, <<" ", "h", "i", " ">>, <<"m", "e", "n", "u">> }

\* ------------------------------------------------------ loading the bot
\* The promise chain of widget.js:234-246 settles: the header and the
\* greeting bubble it leaves.
botLoaded(outcome) ==
  IF ~outcome.rejected /\ responseOk(outcome) /\ outcome.parses
    THEN [name |-> IF Falsy(outcome.data.name) THEN DefaultBotName
                                               ELSE outcome.data.name,
          greeting |-> IF Falsy(outcome.data.greeting) THEN DefaultGreeting
                                                       ELSE outcome.data.greeting]
    ELSE [name |-> botNameHeader, greeting |-> FallbackGreeting]

GetBotSettled ==
  \E i \in 1..Len(fetches), outcome \in GetBotOutcomes :
    /\ fetches[i].url = "/api/get-bot"
    /\ botNameHeader' = botLoaded(outcome).name
    /\ botMessages' = addMessage(botMessages, botLoaded(outcome).greeting, "bot", FALSE)
    /\ fetches' = Without(fetches, i)
    /\ UNCHANGED <<botInput, sendBtn, cfgVars, apiVars, hookVars>>

\* ------------------------------------------------------------ the user
\* The user types; a disabled input takes no keystrokes.
TypeText ==
  \E text \in InputTexts :
    /\ ~botInput.disabled
    /\ botInput' = [botInput EXCEPT !.value = text]
    /\ UNCHANGED <<botMessages, botNameHeader, sendBtn, fetches,
                   cfgVars, apiVars, hookVars>>

sendMessageUntrimmed ==
  LET message == botInput.value IN
  IF message = <<>>
    THEN UNCHANGED widgetVars
    ELSE /\ botMessages' = showTyping(addMessage(botMessages, message, "user", FALSE))
         /\ botInput' = [value |-> <<>>, disabled |-> TRUE]
         /\ sendBtn' = [disabled |-> TRUE]
         /\ fetches' = Append(fetches, [url |-> "/api/chat", pc |-> "fetch",
                                        message |-> message])
         /\ UNCHANGED botNameHeader

\* sendMessage up to its await of fetch (widget.js:301-321).
sendMessage ==
  LET message == trim(botInput.value) IN
  IF message = <<>>
    THEN UNCHANGED widgetVars
    ELSE /\ botMessages' = showTyping(addMessage(botMessages, message, "user", FALSE))
         /\ botInput' = [value |-> <<>>, disabled |-> TRUE]
         /\ sendBtn' = [disabled |-> TRUE]
         /\ fetches' = Append(fetches, [url |-> "/api/chat", pc |-> "fetch",
                                        message |-> message])
         /\ UNCHANGED botNameHeader

\* The keypress listener of #bot-input (widget.js:349-353); a disabled input
\* receives no key events.
PressEnter ==
  /\ ~botInput.disabled
  /\ Len(Sent(botMessages)) < MaxSends
  /\ sendMessage
  /\ UNCHANGED <<cfgVars, apiVars, hookVars>>

\* The click listener of #bot-send-btn (widget.js:355); a disabled button
\* dispatches no click.
ClickSend ==
  /\ ~sendBtn.disabled
  /\ Len(Sent(botMessages)) < MaxSends
  /\ sendMessage
  /\ UNCHANGED <<cfgVars, apiVars, hookVars>>

\* ---------------------------------------------------- the chat round trip
sendMessageCatchKeepTyping(messages) ==
  addMessage(messages, ConnectionErrorText, "bot", TRUE)

\* The catch block of sendMessage (widget.js:336-339).
sendMessageCatch(messages) ==
  addMessage(hideTyping(messages), ConnectionErrorText, "bot", TRUE)

sendMessageFinallySkipped == UNCHANGED <<botInput, sendBtn>>

\* The finally block of sendMessage (widget.js:340-345).
sendMessageFinally ==
  /\ botInput' = [botInput EXCEPT !.disabled = FALSE]
  /\ sendBtn' = [sendBtn EXCEPT !.disabled = FALSE]

\* data.reply of a parsed body.
replyOf(data) == IF "reply" \in DOMAIN data THEN data.reply ELSE Undefined

\* The bubble for a parsed 2xx body (widget.js:331-335).
replyShown(messages, data) ==
  IF Falsy(replyOf(data))
    THEN addMessage(messages, NoReplyText, "bot", TRUE)
    ELSE addMessage(messages, replyOf(data), "bot", FALSE)

\* `await fetch(...)` settles (widget.js:317-327): a rejection or a non-2xx
\* response ends in the catch and the finally blocks; a 2xx response hides
\* the typing placeholder and the call awaits response.json().
ChatFetchSettled ==
  \E i \in 1..Len(fetches), outcome \in ChatOutcomes :
    /\ fetches[i].url = "/api/chat"
    /\ fetches[i].pc = "fetch"
    /\ IF outcome.rejected
         THEN /\ botMessages' = sendMessageCatch(botMessages)
              /\ sendMessageFinally
              /\ fetches' = Without(fetches, i)
         ELSE IF ~responseOk(outcome)
           THEN /\ botMessages' = sendMessageCatch(hideTyping(botMessages))
                /\ sendMessageFinally
                /\ fetches' = Without(fetches, i)
           ELSE /\ botMessages' = hideTyping(botMessages)
                /\ fetches' = [fetches EXCEPT ![i] =
                                 [url |-> "/api/chat", pc |-> "json",
                                  message |-> fetches[i].message,
                                  response |-> outcome]]
                /\ UNCHANGED <<botInput, sendBtn>>
    /\ UNCHANGED <<botNameHeader, cfgVars, apiVars, hookVars>>

\* `await response.json()` settles (widget.js:329-345).
ChatJsonSettled ==
  \E i \in 1..Len(fetches) :
    /\ fetches[i].url = "/api/chat"
    /\ fetches[i].pc = "json"
    /\ botMessages' =
         IF fetches[i].response.parses
           THEN replyShown(botMessages, fetches[i].response.data)
           ELSE sendMessageCatch(botMessages)
    /\ sendMessageFinally
    /\ fetches' = Without(fetches, i)
    /\ UNCHANGED <<botNameHeader, cfgVars, apiVars, hookVars>>

\* The page after the widget's script has run (widget.js:1-246, 348-364): the
\* panel is built, the get-bot request is in flight, the listeners are set.
InitWidget ==
  /\ supabase = TRUE
  /\ genAI = TRUE
  /\ verifyToken = Undefined
  /\ chatbots = <<>>
  /\ nextBotId = 1
  /\ req = [endpoint |-> "none"]
  /\ res = Response(0, "", 0, 0)
  /\ hooks = <<>>
  /\ customers = <<>>
  /\ conversations = <<>>
  /\ orders = <<>>
  /\ faults = 0
  /\ botMessages = <<>>
  /\ botNameHeader = DefaultBotName
  /\ botInput = [value |-> <<>>, disabled |-> FALSE]
  /\ sendBtn = [disabled |-> FALSE]
  /\ fetches = << [url |-> "/api/get-bot", pc |-> "fetch"] >>

NextWidget ==
  \/ GetBotSettled
  \/ TypeText
  \/ PressEnter
  \/ ClickSend
  \/ ChatFetchSettled
  \/ ChatJsonSettled

SpecWidget == InitWidget /\ [][NextWidget]_vars

\* =================================================================== claims
StoreBacked ==
  {"chat", "get-bot", "create-bot", "list-bots", "update-bot", "delete-bot"}

\* C1: a POST /api/chat whose body lacks `message` or lacks `botId` is
\* answered 400, and the handler makes no store call and no completion call
\* for it, whether or not the store and completion clients are configured.
C1_ChatMissingField400 ==
  (req.endpoint = "chat" /\ (req.message = Undefined \/ req.botId = Undefined))
    => (res.status = 400 /\ res.storeCalls = 0 /\ res.genCalls = 0)

\* C1 witness: a chat request that has a message and no botId was answered
\* 400 while the store client is unconfigured.
C1_Witness ==
  /\ req.endpoint = "chat"
  /\ req.message = "what do you sell?"
  /\ req.botId = Undefined
  /\ ~supabase
  /\ res.status = 400

\* C2 as stated: a GET /api/get-bot with no `id` is answered 400 in every
\* store state, the unconfigured store included.
C2_Original ==
  (req.endpoint = "get-bot" /\ req.id = Undefined) => res.status = 400

\* C2 amended: a GET /api/get-bot with no `id` is answered 400 whenever the
\* store client is configured, whatever the table holds, and 503 when it is
\* not; no store call is made for it either way.
C2_GetBotMissingId ==
  (req.endpoint = "get-bot" /\ req.id = Undefined)
    => /\ res.status = (IF supabase THEN 400 ELSE 503)
       /\ res.storeCalls = 0

\* C2 witness: with the store configured and a bot stored, a get-bot request
\* without id was answered 400.
C2_Witness ==
  /\ req.endpoint = "get-bot"
  /\ req.id = Undefined
  /\ supabase
  /\ Len(chatbots) > 0
  /\ res.status = 400

\* C3 as stated: while the store client is unconfigured every request to a
\* store-backed endpoint is answered 503 and makes no completion call.
C3_Original ==
  (~supabase /\ req.endpoint \in StoreBacked)
    => (res.status = 503 /\ res.genCalls = 0)

\* C3 amended: while the store client is unconfigured, every request to a
\* store-backed endpoint makes no completion call and no store call, and is
\* answered 503, except a POST /api/chat whose message or botId is missing or
\* empty, which is answered 400.
C3_UnconfiguredStore ==
  (~supabase /\ req.endpoint \in StoreBacked)
    => /\ res.genCalls = 0
       /\ res.storeCalls = 0
       /\ res.status =
            (IF req.endpoint = "chat" /\ (Falsy(req.message) \/ Falsy(req.botId))
               THEN 400 ELSE 503)

\* C3 witness: with the store unconfigured, a delete-bot request and a chat
\* request with both fields present are answered 503.
C3_Witness ==
  /\ ~supabase
  /\ res.status = 503
  /\ \/ req.endpoint = "delete-bot"
     \/ /\ req.endpoint = "chat"
        /\ ~Falsy(req.message)
        /\ ~Falsy(req.botId)

\* C6: GET /webhook echoes the challenge (200) only when a verification
\* secret is configured and hub.verify_token equals it; every other request
\* is answered 403.
C6_VerifyNeedsConfiguredSecret ==
  req.endpoint = "webhook-verify"
    => /\ res.status = 200 => (verifyToken # Undefined /\ req.token = verifyToken)
       /\ ~(verifyToken # Undefined /\ req.token = verifyToken) => res.status = 403

\* C7 as stated: with hub.mode and hub.verify_token matching, GET /webhook
\* answers 200 with the challenge as body; with a mismatched token it answers
\* 403 with an empty body.
C7_Original ==
  req.endpoint = "webhook-verify"
    => /\ (req.mode = "subscribe" /\ req.token = verifyToken /\ req.challenge # Undefined)
            => (res.status = 200 /\ res.body = req.challenge)
       /\ req.token # verifyToken => (res.status = 403 /\ res.body = "")

\* C7 amended: with hub.mode and hub.verify_token matching, GET /webhook
\* answers 200 with a body equal to hub.challenge unchanged; with a
\* mismatched token it answers 403 and the body is the status text
\* "Forbidden", never the challenge.
C7_VerifyEcho ==
  req.endpoint = "webhook-verify"
    => /\ (req.mode = "subscribe" /\ req.token = verifyToken /\ req.challenge # Undefined)
            => (res.status = 200 /\ res.body = req.challenge)
       /\ req.token # verifyToken => (res.status = 403 /\ res.body = "Forbidden")

\* C7 witness: a verification with the configured secret was answered with
\* the challenge it carried.
C7_Witness ==
  /\ req.endpoint = "webhook-verify"
  /\ verifyToken = "s3cret"
  /\ req.token = "s3cret"
  /\ req.challenge = "1158201444"
  /\ res.status = 200
  /\ res.body = "1158201444"
\* ------------------------------------------------- claims on POST /webhook
Done(r) == hooks[r].pc = "done"
Did(r, event) == \E i \in 1..Len(hooks[r].trace) : hooks[r].trace[i] = event
Quiescent == \A r \in Deliveries : hooks[r].pc \in {"idle", "done"}
Apologies(r) ==
  Cardinality({i \in 1..Len(hooks[r].sent) : hooks[r].sent[i].text = ApologyText})

\* C4: every POST /webhook is acknowledged with 200 before any processing
\* step, and no later failure changes the status the platform received.
C4_AckBeforeProcessing ==
  \A r \in Deliveries :
    hooks[r].pc # "idle"
      => /\ hooks[r].status = 200
         /\ hooks[r].trace[1] = "ack"

\* C4 witness: a delivery was acknowledged, went through the store and the
\* completion call, the completion call failed, and the status is still 200.
C4_Witness ==
  \E r \in Deliveries :
    /\ Done(r)
    /\ Did(r, "saveIncoming")
    /\ "generate" \in hooks[r].failed
    /\ hooks[r].status = 200

\* The steps C5 lists: read receipt, customer get-or-create, conversation
\* logging, history fetch, intent classification, reply generation, outbound
\* send, order record creation.
C5_ListedSteps ==
  {"readReceipt", "select", "update", "insert", "customer", "saveIncoming",
   "saveOutgoing", "history", "intent", "generate", "sendReply", "button",
   "buttonFallback", "order"}

\* C5 as stated: when any step of a message's pipeline fails, exactly one
\* send of the fixed apology text is attempted.
C5_Original ==
  \A r \in Deliveries :
    (Done(r) /\ hooks[r].failed \cap C5_ListedSteps # {}) => Apologies(r) = 1

\* The failures that reach the catch of handleIntelligentMessage.
C5_Thrown == {"storeClient", "customer", "intent", "generate"}

\* C5 amended: every failure in a message's pipeline is caught and leaves the
\* acknowledged status alone; exactly one send of the fixed apology text is
\* attempted when an exception reaches the catch of handleIntelligentMessage
\* (the store client is unconfigured, get-or-create ends without a customer
\* record, the message has no text so intent classification throws, or reply
\* generation rejects), and none is attempted when only a read receipt, an
\* outbound send or a store call whose result is not read fails.
C5_ApologyOnThrow ==
  \A r \in Deliveries :
    /\ Apologies(r) <= 1
    /\ Done(r) =>
         /\ hooks[r].status = 200
         /\ Apologies(r) = (IF hooks[r].failed \cap C5_Thrown # {} THEN 1 ELSE 0)

\* C5 witness: reply generation failed for a message and one apology went to
\* its sender.
C5_Witness ==
  \E r \in Deliveries :
    /\ Done(r)
    /\ "generate" \in hooks[r].failed
    /\ Apologies(r) = 1
    /\ hooks[r].sent[Len(hooks[r].sent)].to = hooks[r].from

\* The claim's reading of "contains a keyword, case-insensitively": some
\* keyword matches letter by letter at some position of the text.
SameLetter(c, lower) ==
  \/ c = lower
  \/ \E k \in 1..Len(UpperCase) : UpperCase[k] = c /\ LowerCase[k] = lower
C8_Keywords ==
  { <<"o", "r", "d", "e", "r">>, <<"m", "e", "n", "u">>, <<"f", "o", "o", "d">>,
    <<"h", "u", "n", "g", "r", "y">>, <<"e", "a", "t">>,
    <<"d", "e", "l", "i", "v", "e", "r", "y">>, <<"p", "i", "c", "k", "u", "p">>,
    <<"w", "a", "n", "t">>, <<"g", "e", "t">>, <<"b", "u", "y">>,
    <<"p", "u", "r", "c", "h", "a", "s", "e">>, <<"p", "l", "a", "c", "e">> }
C8_HasKeyword(text) ==
  \E kw \in C8_Keywords :
    \E i \in 1..Len(text) :
      /\ i + Len(kw) - 1 <= Len(text)
      /\ \A j \in 1..Len(kw) : SameLetter(text[i + j - 1], kw[j])

\* C8: for every inbound text message the handler takes the order branch iff
\* the lower-cased text contains one of the 12 keywords as a substring; the
\* choice is a function of the text alone.
C8_IntentByKeyword ==
  \A r \in Deliveries :
    Did(r, "intent")
      => /\ hooks[r].isOrderIntent = C8_HasKeyword(hooks[r].text)
         /\ Did(r, "sendReply")
              => ((hooks[r].pc = "delay" \/ Did(r, "delay"))
                    <=> C8_HasKeyword(hooks[r].text))

\* C8 witness: "GrEAT" (a keyword inside a word, in mixed case) went down the
\* order branch and "ge t" (a keyword broken by a space) down the general one.
C8_Witness ==
  \E r1, r2 \in Deliveries :
    /\ hooks[r1].text = TextGreat /\ Did(r1, "order")
    /\ hooks[r2].text = TextSplit /\ Done(r2) /\ Did(r2, "saveOutgoing")
    /\ ~Did(r2, "delay")

\* The conversation entries of a phone number, oldest first, with the columns
\* the history selects.
C9_Log(phoneNumber) ==
  historyColumns(SelectSeq(conversations, LAMBDA e : e.phone_number = phoneNumber))
C9_Tail(s, n) == IF Len(s) <= n THEN s ELSE SubSeq(s, Len(s) - n + 1, Len(s))

\* C9: getConversationHistory(phoneNumber, 5) returns at most 5 entries, the
\* most recently created ones of that phone number, oldest first, whatever
\* the log holds (an empty list when the store reports an error).
C9_HistoryLastFive ==
  [][\A r \in Deliveries :
       (hooks[r].pc = "history" /\ hooks'[r].pc # "history")
         => /\ Len(hooks'[r].history) <= 5
            /\ hooks'[r].history =
                 (IF "history" \in hooks'[r].failed
                    THEN <<>>
                    ELSE C9_Tail(C9_Log(hooks[r].from), 5))]_vars

\* C9 witness: a history of 5 entries was fetched for a phone number that
\* has more than 5 entries in the log, among entries of another number.
C9_Witness ==
  \E r \in Deliveries :
    /\ hooks[r].pc = "typing2"
    /\ Len(hooks[r].history) = 5
    /\ Len(C9_Log(hooks[r].from)) > 5
    /\ hooks[r].history[1].created_at < hooks[r].history[5].created_at
    /\ Len(conversations) > Len(C9_Log(hooks[r].from))

C10_Classified(r) == Did(r, "intent") /\ hooks[r].isOrderIntent

\* C10 as stated: once the inbound messages are processed, the number of
\* order records created equals the number of messages classified as order
\* intent.
C10_Original ==
  Quiescent =>
    Len(orders) - Len(PriorOrders)
      = Cardinality({r \in Deliveries : C10_Classified(r)})

\* C10 amended: once the inbound messages are processed, the number of order
\* records created equals the number of messages classified as order intent
\* whose reply generation and whose order insert did not fail: each of them
\* created exactly one record with status 'pending' (repeated intent messages
\* create repeated records); general-branch messages create none.
C10_OrderPerIntent ==
  /\ \A i \in 1..Len(orders) : orders[i].status = "pending"
  /\ Quiescent =>
       Len(orders) - Len(PriorOrders)
         = Cardinality({r \in Deliveries :
                          /\ C10_Classified(r)
                          /\ hooks[r].failed \cap {"generate", "order"} = {}})

\* C10 witness: two order-intent messages of one phone number and nothing
\* else were processed and two records were added.
C10_Witness ==
  /\ Quiescent
  /\ \A r \in Deliveries : C10_Classified(r) /\ hooks[r].from = KnownPhone
  /\ Len(orders) = Len(PriorOrders) + MaxDeliveries

\* The row saveConversation inserts for the reply of delivery r.
C11_Entry(r) ==
  [customer_id |-> hooks[r].customer.id, phone_number |-> hooks[r].from,
   message_type |-> "outgoing", message_content |-> hooks[r].aiResponse,
   created_at |-> Len(conversations) + 1]

\* C11: on both branches, a delivery that sent its reply finishes only through
\* the outgoing log step, which appends the reply text as an 'outgoing' entry
\* of that customer (the log is unchanged when the store rejects the insert).
C11_ReplyLogged ==
  [][\A r \in Deliveries :
       (/\ \E i \in 1..Len(hooks'[r].trace) : hooks'[r].trace[i] = "sendReply"
        /\ hooks[r].pc # "done"
        /\ hooks'[r].pc = "done")
         => /\ hooks[r].pc = "saveOutgoing"
            /\ \E i \in 1..Len(hooks[r].sent) :
                 /\ hooks[r].sent[i].text = hooks[r].aiResponse
                 /\ hooks[r].sent[i].to = hooks[r].from
            /\ conversations' =
                 (IF "saveOutgoing" \in hooks'[r].failed
                    THEN conversations
                    ELSE Append(conversations, C11_Entry(r)))]_vars

\* C11 witness: an order-branch delivery and a general-branch delivery both
\* finished, and the last log entry is the outgoing reply of one of them.
C11_Witness ==
  \E r1, r2 \in Deliveries :
    /\ Done(r1) /\ Did(r1, "order") /\ Did(r1, "saveOutgoing")
    /\ Done(r2) /\ ~hooks[r2].isOrderIntent /\ Did(r2, "saveOutgoing")
    /\ hooks[r1].failed = {} /\ hooks[r2].failed = {}
    /\ conversations[Len(conversations)].message_type = "outgoing"
    /\ conversations[Len(conversations)].message_content \in
         {hooks[r1].aiResponse, hooks[r2].aiResponse}
    /\ Len(conversations) = Len(PriorConversations) + 4

\* The deliveries of a phone number whose customer get-or-create has written.
C12_Received(p) ==
  {r \in Deliveries : hooks[r].from = p /\ (Did(r, "update") \/ Did(r, "insert"))}
\* The messages a phone number had sent before the run.
C12_Earlier(p) ==
  LET rows == SelectSeq(PriorCustomers, LAMBDA c : c.phone_number = p)
  IN IF rows = <<>> THEN 0 ELSE rows[1].total_interactions
C12_StoreAnswers ==
  \A r \in Deliveries : hooks[r].failed \cap {"select", "update", "insert"} = {}

\* C12: when messages are processed one at a time and the store answers the
\* customer queries, the stored total_interactions of a phone number equals
\* the number of inbound messages received from it: 1 at creation, plus 1 for
\* every later message.
C12_CountsMessages ==
  C12_StoreAnswers =>
    \A p \in {KnownPhone, NewPhone} :
      LET n == C12_Earlier(p) + Cardinality(C12_Received(p))
          rows == customersByPhone(p)
      IN IF n = 0 THEN rows = <<>>
         ELSE Len(rows) = 1 /\ rows[1].total_interactions = n

\* C12 witness: every delivery of the run came from the new phone number, one
\* after the other, and the record created with 1 now counts them all.
C12_Witness ==
  /\ \A r \in Deliveries : Done(r) /\ hooks[r].from = NewPhone
  /\ C12_StoreAnswers
  /\ Did(1, "insert")
  /\ Did(MaxDeliveries, "update")
  /\ customersByPhone(NewPhone)[1].total_interactions = MaxDeliveries

\* ------------------------------------------------ claims on the API, continued
\* A chat request whose completion call was made and raised an exception.
C13_GenerationFailed ==
  /\ req.endpoint = "chat"
  /\ res.genCalls = 1
  /\ ~req.gen.ok
C13_ReplyFor(err) ==
  IF messageIncludes(err, ApiKeyText)
    THEN "AI service configuration error. Please contact support."
  ELSE IF messageIncludes(err, QuotaText)
    THEN "AI service is temporarily busy. Please try again in a moment."
  ELSE "I'm having trouble processing your message. Please try again."

\* C13 as stated: every exception of the completion call yields status 500,
\* with the reply text chosen by 'API key', 'quota' or neither.
C13_Original ==
  C13_GenerationFailed
    => (res.status = 500 /\ res.body = [reply |-> C13_ReplyFor(req.gen.err)])

\* C13 amended: the reply text is chosen by 'API key' (tested first), 'quota'
\* or neither; the status is 500 for the configuration and the generic text
\* and 429 for the rate-limit text.
C13_GenerationErrorStatus ==
  C13_GenerationFailed
    => /\ res.body = [reply |-> C13_ReplyFor(req.gen.err)]
       /\ res.status =
            (IF ~messageIncludes(req.gen.err, ApiKeyText)
                /\ messageIncludes(req.gen.err, QuotaText)
               THEN 429 ELSE 500)

\* C13 witness: the completion call failed with a message containing 'quota'
\* and the request was answered 429 with the rate-limit text.
C13_Witness ==
  /\ C13_GenerationFailed
  /\ req.gen.err = [message |-> <<"n", "o", " ">> \o QuotaText]
  /\ res.status = 429
  /\ res.body.reply = "AI service is temporarily busy. Please try again in a moment."

\* The fixed texts the handlers put in the `reply`/`error` field of an error
\* response.
C14_StaticTexts ==
  {"Message is required", "Bot ID is required",
   "Database not configured. Please contact support.",
   "AI service not configured. Please contact support.",
   "Bot not found. Please check the bot ID.",
   "Bot configuration not found.",
   "AI service configuration error. Please contact support.",
   "AI service is temporarily busy. Please try again in a moment.",
   "I'm having trouble processing your message. Please try again.",
   "Database not configured. Please set SUPABASE_URL and SUPABASE_KEY.",
   "Name and greeting are required", "Failed to create bot",
   "Bot not found", "Internal server error"}

\* C14: every error response carries only fixed, static text in its
\* `reply`/`error` field; no text of a store or completion error object
\* appears in a response body.
C14_NoErrorDetail ==
  (req.endpoint \in StoreBacked /\ res.status >= 400)
    => /\ "error" \in DOMAIN res.body => res.body.error \in C14_StaticTexts
       /\ "reply" \in DOMAIN res.body => res.body.reply \in C14_StaticTexts

\* A chat request that passed the input and configuration checks, so that the
\* bot lookup was made.
C18_LookedUp == req.endpoint = "chat" /\ res.storeCalls = 1
C18_BotFound ==
  /\ ~req.fault
  /\ Cardinality({i \in 1..Len(chatbots) : chatbots[i].id = req.botId}) = 1

\* C18: with both fields present, both services configured and the bot found,
\* a successful completion call is answered 200 with success true and the
\* completion's text as reply, unmodified; when the bot lookup fails the
\* answer is 404 and the completion adapter is not called.
C18_ReplyForwarded ==
  C18_LookedUp =>
    IF C18_BotFound
      THEN /\ res.genCalls = 1
           /\ req.gen.ok =>
                /\ res.status = 200
                /\ res.body = [reply |-> req.gen.text, success |-> TRUE]
      ELSE res.status = 404 /\ res.genCalls = 0

\* C18 witness: a stored bot was asked a question and the completion's text
\* came back as the reply.
C18_Witness ==
  /\ C18_LookedUp
  /\ C18_BotFound
  /\ req.gen.ok
  /\ req.gen.text = "I do not have that information."
  /\ res.body.reply = "I do not have that information."
  /\ res.status = 200

\* ------------------------------------------- claims on POST /webhook, continued
\* The position of a step in the trace of a delivery, 0 when it has not run.
C19_Pos(r, event) ==
  IF Did(r, event)
    THEN CHOOSE i \in 1..Len(hooks[r].trace) : hooks[r].trace[i] = event
    ELSE 0

\* C19 as stated: the intent is classified after the typing delay and before
\* the customer record is touched or the inbound message is logged.
C19_Original ==
  \A r \in Deliveries :
    (Did(r, "select") \/ Did(r, "saveIncoming"))
      => /\ Did(r, "intent")
         /\ C19_Pos(r, "intent") < C19_Pos(r, "select")

\* The order in which the code runs the steps of a message.
C19_Order ==
  << {"ack"}, {"readReceipt"}, {"typing"}, {"select"}, {"update", "insert"},
     {"saveIncoming"}, {"history"}, {"intent"}, {"replyTyping"} >>

\* C19 amended: the steps of every message occur strictly in the order read
\* receipt, typing delay, customer get-or-create, log of the inbound message,
\* fetch of the last 5 entries, intent classification, then the branch; a
\* step runs only after all the earlier ones, unless an exception ends the
\* sequence.
C19_StepsInOrder ==
  \A r \in Deliveries :
    \A i \in 1..Len(hooks[r].trace) :
      i <= Len(C19_Order)
        => \/ hooks[r].trace[i] \in C19_Order[i]
           \/ \E j \in 1..i : hooks[r].trace[j] \in {"caught", "webhookError"}

\* C19 witness: a message of a new customer was classified after the customer
\* record had been inserted, the message logged and the history fetched.
C19_Witness ==
  \E r \in Deliveries :
    /\ Len(hooks[r].trace) = 8
    /\ hooks[r].trace[8] = "intent"
    /\ Did(r, "insert")
    /\ Len(customersByPhone(hooks[r].from)) = 1
    /\ hooks[r].history # <<>>

\* The plain-text messages of delivery r that apologise for the order button.
C20_Fallbacks(r) ==
  {i \in 1..Len(hooks[r].sent) :
     /\ hooks[r].sent[i].type = "text"
     /\ hooks[r].sent[i].to = hooks[r].from
     /\ hooks[r].sent[i].text =
          "Sorry " \o (IF hooks[r].customer.customer_name = Undefined
                         THEN "friend" ELSE hooks[r].customer.customer_name)
            \o ", having trouble with the order button. Try again in a moment!"}

\* C20: on the order branch, a failed send of the interactive button is
\* followed by exactly one plain-text apology naming the customer, the fixed
\* pipeline apology is not sent, and processing continues with the order
\* record and the outgoing log; no such apology is sent when the button goes
\* out.
C20_ButtonFallback ==
  \A r \in Deliveries :
    (Done(r) /\ Did(r, "button"))
      => /\ hooks[r].isOrderIntent
         /\ Cardinality(C20_Fallbacks(r))
              = (IF "button" \in hooks[r].failed THEN 1 ELSE 0)
         /\ Apologies(r) = 0
         /\ Did(r, "order")
         /\ Did(r, "saveOutgoing")

\* C20 witness: the button for the known customer Ann failed, she got the
\* apology with her name, and the order record was still created.
C20_Witness ==
  \E r \in Deliveries :
    /\ Done(r)
    /\ hooks[r].failed = {"button"}
    /\ hooks[r].from = KnownPhone
    /\ \E i \in C20_Fallbacks(r) :
         hooks[r].sent[i].text =
           "Sorry Ann, having trouble with the order button. Try again in a moment!"
    /\ Len(orders) > Len(PriorOrders)

\* ------------------------------------------------------ claims on the widget
C15_ErrorBubble == Bubble(ConnectionErrorText, "bot", TRUE)
C15_NoTyping(messages) ==
  SelectSeq(messages, LAMBDA m : m.id # "typing-indicator")

\* C15: when the chat request fails in transport or is answered with a
\* non-2xx status, exactly one error-styled bubble with the fixed text is
\* appended, no typing placeholder remains, and the input field and the send
\* button are enabled.
C15_ChatFailureShown ==
  [][(/\ \E i \in 1..Len(fetches) :
           fetches[i].url = "/api/chat" /\ fetches[i].pc = "fetch"
      /\ Len(ChatCalls(fetches')) < Len(ChatCalls(fetches)))
       => /\ botMessages' = Append(C15_NoTyping(botMessages), C15_ErrorBubble)
          /\ ~botInput'.disabled
          /\ ~sendBtn'.disabled]_vars

\* C15 witness: the request of the only message sent has failed; the list
\* ends with the user's bubble and the error bubble, the controls are enabled.
C15_Witness ==
  /\ Len(botMessages) >= 2
  /\ botMessages[Len(botMessages)] = C15_ErrorBubble
  /\ botMessages[Len(botMessages) - 1].className = "msg user-msg"
  /\ ChatCalls(fetches) = <<>>
  /\ ~botInput.disabled
  /\ ~sendBtn.disabled

\* C16: a send with an empty or whitespace-only input changes nothing: no
\* bubble, no typing placeholder, no request, the controls stay enabled.
C16_BlankSendNoEffect ==
  [][((PressEnter \/ ClickSend) /\ trim(botInput.value) = <<>>)
       => UNCHANGED widgetVars]_vars

\* C16 witness: the input holds only spaces while the controls are enabled
\* and a send is possible.
C16_Witness ==
  /\ botInput.value = <<" ", " ">>
  /\ ~botInput.disabled
  /\ ~sendBtn.disabled
  /\ Len(Sent(botMessages)) = 1
  /\ fetches = <<>>

C17_Typing(messages) ==
  SelectSeq(messages, LAMBDA m : m.id = "typing-indicator")
C17_InFlight == ChatCalls(fetches) # <<>>

\* C17: the input field and the send button are disabled exactly while a chat
\* request is unsettled, whatever its outcome; at most one chat request is in
\* flight and at most one typing placeholder exists.
C17_DisabledWhileInFlight ==
  /\ botInput.disabled = C17_InFlight
  /\ sendBtn.disabled = C17_InFlight
  /\ Len(ChatCalls(fetches)) <= 1
  /\ Len(C17_Typing(botMessages)) <= 1
  /\ C17_Typing(botMessages) # <<>> => C17_InFlight

\* C17 witness: two messages were sent, one answered 2xx without a reply and
\* one failed, and the controls are enabled again.
C17_Witness ==
  /\ Len(Sent(botMessages)) = 2
  /\ ~C17_InFlight
  /\ ~botInput.disabled
  /\ ~sendBtn.disabled
  /\ \E i, j \in 1..Len(botMessages) :
       /\ botMessages[i] = Bubble(NoReplyText, "bot", TRUE)
       /\ botMessages[j] = C15_ErrorBubble

\* ------------------------------------------ claims on concurrent deliveries
\* Two deliveries of the known phone number, the only ones it sent in the
\* run, have both written the counter after reading the same value.
C21_BothReadSame(r1, r2) ==
  /\ r1 # r2
  /\ C12_Received(KnownPhone) = {r1, r2}
  /\ Did(r1, "update")
  /\ Did(r2, "update")
  /\ C12_StoreAnswers
  /\ hooks[r1].customer.total_interactions = hooks[r2].customer.total_interactions

\* C21: two messages of one existing phone number processed concurrently can
\* both read the same total_interactions and both write it plus 1; the
\* counter then ends one lower than the number of messages received.
C21_LostUpdate ==
  \A r1, r2 \in Deliveries :
    C21_BothReadSame(r1, r2)
      => /\ Len(customersByPhone(KnownPhone)) = 1
         /\ customersByPhone(KnownPhone)[1].total_interactions
              = hooks[r1].customer.total_interactions + 1
         /\ customersByPhone(KnownPhone)[1].total_interactions
              = C12_Earlier(KnownPhone) + Cardinality(C12_Received(KnownPhone)) - 1

\* C21 witness: the interleaving is reachable, and both deliveries ran to
\* their end.
C21_Witness ==
  \E r1, r2 \in Deliveries :
    /\ C21_BothReadSame(r1, r2)
    /\ Done(r1)
    /\ Done(r2)
    /\ customersByPhone(KnownPhone)[1].total_interactions =
         C12_Earlier(KnownPhone) + 1

\* The inbound messages the sender of delivery r had sent before it: those of
\* earlier runs and those of the earlier deliveries of this run.
C22_SentBefore(r) ==
  C12_Earlier(hooks[r].from)
    + Cardinality({q \in Deliveries : q < r /\ hooks[q].from = hooks[r].from})

\* C22: on the order branch the returning flag of the persona prompt is 'Yes'
\* exactly when the customer has sent at least one inbound message before the
\* current one (messages processed one at a time, the store answering the
\* customer queries).
C22_ReturningFlag ==
  C12_StoreAnswers =>
    \A r \in Deliveries :
      "returning" \in DOMAIN hooks[r].persona
        => (hooks[r].persona.returning = "Yes" <=> C22_SentBefore(r) >= 1)

\* C23: whenever the message list of the widget is non-empty, its first
\* bubble is the greeting bubble: the bot's greeting, the default greeting or
\* the fallback greeting.
C23_GreetingFirst ==
  botMessages # <<>>
    => /\ botMessages[1].className = "msg bot-msg"
       /\ botMessages[1].innerText \in {"Hi!", DefaultGreeting, FallbackGreeting}

\* C24: there is at most one customer record per phone number in every
\* reachable state, concurrent first messages of a new phone number included
\* (stated for the runs in which no external call fails).
C24_OneRecordPerPhone ==
  faults = 0 =>
    \A p \in {KnownPhone, NewPhone, OtherPhone} : Len(customersByPhone(p)) <= 1

\* A request body that carries no message: another object type, no messages
\* field (a status notification), or an empty messages array.
C25_NoMessage(body) ==
  IF body.object # "whatsapp_business_account" THEN TRUE
  ELSE IF "messages" \notin DOMAIN body THEN TRUE
  ELSE body.messages = <<>>
\* Delivery r receives `body` in this step.
C25_Receives(r, body) ==
  /\ hooks[r].pc = "idle"
  /\ hooks'[r].pc # "idle"
  /\ hooks'[r] = webhookPost(hooks[r], body)
\* The steps of a delivery that touch the store, the completion client or
\* the messaging platform.
C25_Effects ==
  {"readReceipt", "select", "update", "insert", "saveIncoming", "history",
   "generate", "sendReply", "button", "buttonFallback", "order",
   "saveOutgoing", "apology"}

\* C25: a POST /webhook whose body carries no message is acknowledged with
\* 200 and ends there: no store read or write, no completion call, no read
\* receipt and no outbound message, then or later. A body with several
\* messages starts the processing of its first message only: one sender, one
\* customer lookup, one logged inbound message, replies to that sender only.
C25_OnlyFirstMessage ==
  [][\A r \in Deliveries :
       /\ \A body \in Envelopes :
            C25_Receives(r, body)
              => /\ hooks'[r].status = 200
                 /\ IF C25_NoMessage(body)
                      THEN /\ hooks'[r].pc = "done"
                           /\ hooks'[r].sent = <<>>
                           /\ \A i \in 1..Len(hooks'[r].trace) :
                                hooks'[r].trace[i] \notin C25_Effects
                           /\ UNCHANGED <<customers, conversations, orders>>
                      ELSE /\ hooks'[r].from = body.messages[1].from
                           /\ hooks'[r].text =
                                (IF "text" \in DOMAIN body.messages[1]
                                   THEN body.messages[1].text ELSE NoText)
       /\ hooks[r].pc = "done" => hooks'[r] = hooks[r]
       /\ \A e \in {"select", "saveIncoming", "intent"} :
            Cardinality({i \in 1..Len(hooks'[r].trace) : hooks'[r].trace[i] = e}) <= 1
       /\ \A i \in 1..Len(hooks'[r].sent) : hooks'[r].sent[i].to = hooks'[r].from]_vars

\* C25 witness: one delivery carried no message and ended at its
\* acknowledgement; another carried two messages and was processed to the
\* end for the first one only, the second sender never reaching the store.
C25_Witness ==
  \E r1, r2 \in Deliveries :
    /\ Done(r1)
    /\ hooks[r1].trace = <<"ack">>
    /\ hooks[r1].status = 200
    /\ Done(r2)
    /\ hooks[r2].name = "Ann B"
    /\ hooks[r2].from = KnownPhone
    /\ hooks[r2].text = TextSplit
    /\ Did(r2, "saveOutgoing")
    /\ customersByPhone(NewPhone) = <<>>
    /\ customers = [PriorCustomers EXCEPT ![1].total_interactions = @ + 1,
                                          ![1].customer_name = "Ann B"]
====
